---- MODULE Spec2Model ----
(***************************************************************************)
(* A model of importance/sage_sklearn.py: estimate_total,                  *)
(* permutation_sampling and iterated_sampling.                             *)
(*                                                                         *)
(* Real numbers are exact rationals <<numerator, denominator>> in lowest   *)
(* terms with a positive denominator; NonFinite stands for the nan / inf   *)
(* that numpy produces when it divides by zero or averages nothing.        *)
(* model.predict, the imputation draw and the loss of an imputed batch are *)
(* external: their outcomes are chosen from LossValues.  estimate_total    *)
(* is modelled with loss = 'mse' on a dataset whose rows hold the model's  *)
(* prediction for the row and the row's label.                             *)
(***************************************************************************)
EXTENDS Integers, Sequences, FiniteSets, TLC

\* ------------------------------------------------------------------ bounds
MaxData == 3
MaxValue == 1
MaxBatch == 2
MaxSamples == 3
MaxM == 2
MaxLoss == 1
InputSize == 2

VARIABLES
    \* the call and its arguments
    fn, pc,
    imputation_module, m_arg, m_samples, batch_size, n_samples,
    detect_convergence, convergence_threshold, dataset,
    \* estimate_total
    b, N, n, mean_loss, marginal_pred, marginal_loss, total,
    \* the sampling loops
    drawn, S, permutations, prev_loss, loss_discluded, loss_included,
    scores, i,
    tracker, ratio, ind, score_list, result,
    \* history: what has been computed so far
    computed, losses, writes, checks, first_below, obs, draws, early

args == <<fn, imputation_module, m_arg, batch_size, n_samples,
          detect_convergence, convergence_threshold, dataset>>

etv == <<b, N, mean_loss, marginal_pred, marginal_loss>>

batchv == <<S, permutations, prev_loss, loss_discluded, loss_included,
            scores, i>>

histv == <<losses, writes, checks, first_below, obs, draws, early>>

vars == <<args, pc, m_samples, etv, n, total, drawn, batchv, tracker, ratio,
          ind, score_list, result, computed, histv>>

\* --------------------------------------------------------------- rationals
Abs(k) == IF k < 0 THEN -k ELSE k

Min(p, q) == IF p < q THEN p ELSE q

RECURSIVE Gcd(_, _)
Gcd(p, q) == IF q = 0 THEN p ELSE Gcd(q, p % q)

NonFinite == <<0, 0>>

IsFinite(r) == r[2] # 0

Rat(p, q) ==
    IF q = 0 THEN NonFinite
    ELSE LET g == Gcd(Abs(p), Abs(q))
             s == IF q < 0 THEN -1 ELSE 1
         IN <<s * (p \div g), Abs(q) \div g>>

Whole(k) == <<k, 1>>

RAdd(r, s) == IF IsFinite(r) /\ IsFinite(s)
              THEN Rat(r[1] * s[2] + s[1] * r[2], r[2] * s[2]) ELSE NonFinite

RSub(r, s) == IF IsFinite(r) /\ IsFinite(s)
              THEN Rat(r[1] * s[2] - s[1] * r[2], r[2] * s[2]) ELSE NonFinite

RMul(r, s) == IF IsFinite(r) /\ IsFinite(s)
              THEN Rat(r[1] * s[1], r[2] * s[2]) ELSE NonFinite

RDiv(r, s) == IF IsFinite(r) /\ IsFinite(s)
              THEN Rat(r[1] * s[2], r[2] * s[1]) ELSE NonFinite

RECURSIVE RSum(_)
RSum(seq) == IF seq = <<>> THEN Whole(0) ELSE RAdd(Head(seq), RSum(Tail(seq)))

\* np.mean of a vector; the mean of nothing is nan.
Mean(seq) == RDiv(RSum(seq), Whole(Len(seq)))

\* ------------------------------------------------------------ estimate_total
Values == 0..MaxValue

Rows == [pred : Values, y : Values]

RECURSIVE SeqsUpTo(_, _)
SeqsUpTo(set, len) ==
    IF len = 0 THEN {<<>>}
    ELSE LET shorter == SeqsUpTo(set, len - 1)
         IN shorter \cup {Append(s, e) : s \in {t \in shorter : Len(t) = len - 1}, e \in set}

\* loss_fn with loss = 'mse', reduction = 'none'
loss_fn(pred, y) == RMul(RSub(pred, y), RSub(pred, y))

\* a loader that also yields the empty remainder of the dataset
NumBatchesWithRemainder(len, bs) == len \div bs + 1

\* DataLoader(dataset, batch_size=batch_size): the number of batches of one pass
NumBatches(len, bs) == (len + bs - 1) \div bs

\* the k-th batch (k = 0, 1, ...) of the sequential loader
Batch(data, bs, k) == SubSeq(data, k * bs + 1, Min(Len(data), (k + 1) * bs))

\* a running average that forgets the sizes
UnweightedAverage(count, old, size, value) ==
    IF count = 0 THEN value ELSE RDiv(RAdd(old, value), Whole(2))

\* (N * old + n * value) / (N + n)
WeightedAverage(count, old, size, value) ==
    RDiv(RAdd(RMul(Whole(count), old), RMul(Whole(size), value)), Whole(count + size))

\* the value of `total` before estimate_total has returned
NotComputed == <<>>

Pass1Batch ==
    /\ pc = "pass1"
    /\ b < NumBatches(Len(dataset), batch_size)
    /\ LET xy == Batch(dataset, batch_size, b)
           size == Len(xy)
           pred == [k \in 1..size |-> Whole(xy[k].pred)]
           loss == [k \in 1..size |-> loss_fn(pred[k], Whole(xy[k].y))]
       IN /\ n' = size
          /\ marginal_pred' = WeightedAverage(N, marginal_pred, size, Mean(pred))
          /\ mean_loss' = WeightedAverage(N, mean_loss, size, Mean(loss))
          /\ N' = N + size
    /\ b' = b + 1
    /\ computed' = TRUE
    /\ UNCHANGED <<args, pc, m_samples, marginal_loss, total, drawn, batchv,
                   tracker, ratio, ind, score_list, result, histv>>

Pass1End ==
    /\ pc = "pass1"
    /\ b = NumBatches(Len(dataset), batch_size)
    /\ pc' = "pass2"
    /\ N' = 0
    /\ marginal_loss' = Whole(0)
    /\ b' = 0
    /\ UNCHANGED <<args, m_samples, n, mean_loss, marginal_pred, total, drawn,
                   batchv, tracker, ratio, ind, score_list, result, computed,
                   histv>>

Pass2Batch ==
    /\ pc = "pass2"
    /\ b < NumBatches(Len(dataset), batch_size)
    /\ LET xy == Batch(dataset, batch_size, b)
           size == Len(xy)
           loss == [k \in 1..size |-> loss_fn(marginal_pred, Whole(xy[k].y))]
       IN /\ n' = size
          /\ marginal_loss' = WeightedAverage(N, marginal_loss, size, Mean(loss))
          /\ N' = N + size
    /\ b' = b + 1
    /\ UNCHANGED <<args, pc, m_samples, mean_loss, marginal_pred, total, drawn,
                   batchv, tracker, ratio, ind, score_list, result, computed,
                   histv>>

ReturnTotal ==
    /\ pc = "pass2"
    /\ b = NumBatches(Len(dataset), batch_size)
    /\ total' = RSub(marginal_loss, mean_loss)
    /\ pc' = IF fn = "estimate_total" THEN "done" ELSE "setup"
    /\ UNCHANGED <<args, m_samples, etv, n, drawn, batchv, tracker, ratio, ind,
                   score_list, result, computed, histv>>

\* ------------------------------------------------------- ImportanceTracker
Features == 0..(InputSize - 1)

RECURSIVE ColumnSum(_, _, _)
ColumnSum(mat, f, square) ==
    IF mat = <<>> THEN 0
    ELSE (IF square THEN Head(mat)[f] * Head(mat)[f] ELSE Head(mat)[f])
         + ColumnSum(Tail(mat), f, square)

NoTracker == [N |-> 0, sum |-> <<>>, sq |-> <<>>]

ImportanceTracker(cols) ==
    [N |-> 0, sum |-> [f \in cols |-> 0], sq |-> [f \in cols |-> 0]]

TrackerUpdate(tr, mat) ==
    [N |-> tr.N + Len(mat),
     sum |-> [f \in DOMAIN tr.sum |-> tr.sum[f] + ColumnSum(mat, f, FALSE)],
     sq |-> [f \in DOMAIN tr.sq |-> tr.sq[f] + ColumnSum(mat, f, TRUE)]]

\* tracker.scores: the running mean of every column
TrackerScores(tr) == [f \in DOMAIN tr.sum |-> Rat(tr.sum[f], tr.N)]

\* tracker.var of column f is VarNumerator(tr, f) / tr.N^3:
\* the variance of the observations divided by their number
VarNumerator(tr, f) == tr.N * tr.sq[f] - tr.sum[f] * tr.sum[f]

SetMax(set) == CHOOSE v \in set : \A w \in set : w <= v

\* np.max(tracker.var), as a numerator over tr.N^3
MaxVarNumerator(tr) == SetMax({VarNumerator(tr, f) : f \in DOMAIN tr.sum})

\* ---------------------------------------------------- the convergence test
\* The float conf / total: nan is 0 / 0, inf is conf / 0 with conf > 0.
RatioClass(vn, tot) ==
    IF ~IsFinite(tot) THEN "nan"
    ELSE IF tot[1] = 0 THEN (IF vn = 0 THEN "nan" ELSE "inf")
    ELSE "finite"

\* (conf / total) < convergence_threshold, with conf = sqrt(vn / cnt^3);
\* every comparison with nan is false and inf is below no finite threshold
RatioBelow(vn, cnt, tot, thr) ==
    LET lhs == vn * (thr[2] * tot[2]) * (thr[2] * tot[2])
        rhs == (thr[1] * tot[1]) * (thr[1] * tot[1]) * cnt * cnt * cnt
    IN IF RatioClass(vn, tot) # "finite" THEN FALSE
       ELSE IF tot[1] > 0 THEN thr[1] > 0 /\ lhs < rhs
       ELSE thr[1] > 0 \/ lhs > rhs

\* a loop that never leaves early
NeverBreak(detect, below) == FALSE

\* if detect_convergence: if (conf / total) < convergence_threshold: break
ShouldBreak(detect, below) == detect /\ below

\* ------------------------------------------------------------ entry checks
\* an entry check that lets every module through
AcceptAnyModule(module) == TRUE

\* isinstance(imputation_module, utils.ImputationModule)
IsImputationModule(module) == module \in {"marginal", "reference"}

\* the caller's m_samples kept as it is
KeepSamples(module, m) == m

\* if isinstance(imputation_module, utils.ReferenceImputation):
\*     if m_samples != 1: m_samples = 1
ClampSamples(module, m) == IF module = "reference" /\ m # 1 THEN 1 ELSE m

VerifyImputation ==
    /\ pc = "start"
    /\ IF IsImputationModule(imputation_module)
       THEN /\ m_samples' = ClampSamples(imputation_module, m_samples)
            /\ pc' = "pass1"
       ELSE /\ pc' = "failed"
            /\ UNCHANGED m_samples
    /\ UNCHANGED <<args, etv, n, total, drawn, batchv, tracker, ratio, ind,
                   score_list, result, computed, histv>>

\* tracker = utils.ImportanceTracker()  /  scores = []
Setup ==
    /\ pc = "setup"
    /\ IF fn = "permutation_sampling"
       THEN /\ tracker' = ImportanceTracker(Features)
            /\ pc' = "loop"
            /\ UNCHANGED <<score_list, ind>>
       ELSE /\ score_list' = <<>>
            /\ ind' = 0
            /\ pc' = "feature"
            /\ UNCHANGED tracker
    /\ UNCHANGED <<args, m_samples, etv, n, total, drawn, batchv, ratio,
                   result, computed, histv>>

\* ------------------------------------------------------------- the loader
\* BatchSampler(RandomSampler(replacement=True, num_samples=n_samples),
\*              batch_size, drop_last=False): the size of the next batch
NextBatchSize(done) == Min(batch_size, n_samples - done)

\* tensor.repeat(m, 1): the rows tiled m times
Repeat(seq, m) ==
    [r \in 1..(Len(seq) * m) |-> seq[((r - 1) % Len(seq)) + 1]]

\* y_hat.reshape((m_samples, -1, ...)) followed by the mean over axis 0:
\* the number of averaged predictions
AveragedRows(rows, m) == rows \div m

LossValues == 0..MaxLoss

\* torch.randperm(input_size)
randperm ==
    {p \in [1..InputSize -> Features] : \A f \in Features : \E k \in 1..InputSize : p[k] = f}

\* ----------------------------------------------------- permutation_sampling
ZeroRow == [f \in Features |-> 0]

\* the tracker update moved into the reveal loop
InnerLoopRunning(pos) == pos >= 1

\* for i in range(input_size): the reveal loop has run to its end
InnerLoopDone(pos) == pos = InputSize

\* prev_loss left at the loss of the empty mask
StalePrevLoss(prev, loss) == prev

\* prev_loss = loss
NextPrevLoss(prev, loss) == loss

\* torch.repeat_interleave: every row repeated m times in place
RepeatInterleave(perms, m) ==
    [r \in 1..(Len(perms) * m) |-> perms[((r - 1) \div m) + 1]]

\* permutations = permutations.repeat(m_samples, 1)
RepeatPermutations(perms, m) == Repeat(perms, m)

\* for x, y in loader: up to the first reveal step
BeginBatch ==
    /\ pc = "loop"
    /\ drawn < n_samples
    /\ LET size == NextBatchSize(drawn)
       IN /\ n' = size
          /\ drawn' = drawn + size
          /\ S' = Repeat([e \in 1..size |-> ZeroRow], m_samples)
          /\ \E perms \in [1..size -> randperm] :
                permutations' = RepeatPermutations(perms, m_samples)
          /\ \E loss \in [1..AveragedRows(size * m_samples, m_samples) -> LossValues] :
                /\ prev_loss' = loss
                /\ losses' = <<loss>>
          /\ scores' = [e \in 1..size |-> ZeroRow]
          /\ writes' = [e \in 1..size |-> ZeroRow]
    /\ i' = 0
    /\ computed' = TRUE
    /\ pc' = "reveal"
    /\ UNCHANGED <<args, m_samples, etv, total, loss_discluded, loss_included,
                   tracker, ratio, ind, score_list, result, checks,
                   first_below, obs, draws, early>>

\* one pass of the body of: for i in range(input_size)
RevealStep ==
    /\ pc = "reveal"
    /\ i < InputSize
    /\ LET inds == [r \in 1..Len(permutations) |-> permutations[r][i + 1]]
       IN /\ S' = [r \in 1..Len(S) |-> [S[r] EXCEPT ![inds[r]] = 1]]
          /\ \E loss \in [1..AveragedRows(Len(S), m_samples) -> LossValues] :
                /\ scores' = [e \in 1..n |->
                                [scores[e] EXCEPT ![inds[e]] = prev_loss[e] - loss[e]]]
                /\ prev_loss' = NextPrevLoss(prev_loss, loss)
                /\ losses' = Append(losses, loss)
          /\ writes' = [e \in 1..n |->
                          [writes[e] EXCEPT ![inds[e]] = writes[e][inds[e]] + 1]]
    /\ i' = i + 1
    /\ UNCHANGED <<args, pc, m_samples, etv, n, total, drawn, permutations,
                   loss_discluded, loss_included, tracker, ratio, ind,
                   score_list, result, computed, checks, first_below, obs,
                   draws, early>>

\* tracker.update(scores)
UpdateTracker ==
    /\ pc = "reveal"
    /\ InnerLoopDone(i)
    /\ tracker' = TrackerUpdate(tracker, scores)
    /\ pc' = "check"
    /\ UNCHANGED <<args, m_samples, etv, n, total, drawn, batchv, ratio, ind,
                   score_list, result, computed, histv>>

\* conf = np.max(tracker.var) ** 0.5 and the test on it; the locals of the
\* batch are dead from here on and are dropped
CheckConvergence ==
    /\ pc = "check"
    /\ LET vn == MaxVarNumerator(tracker)
           below == RatioBelow(vn, tracker.N, total, convergence_threshold)
       IN /\ IF detect_convergence
             THEN /\ ratio' = RatioClass(vn, total)
                  /\ checks' = checks + 1
                  /\ first_below' = IF checks = 0
                                    THEN (IF below THEN "yes" ELSE "no")
                                    ELSE first_below
             ELSE UNCHANGED <<ratio, checks, first_below>>
          /\ pc' = IF ShouldBreak(detect_convergence, below) THEN "break" ELSE "loop"
    /\ S' = <<>>
    /\ permutations' = <<>>
    /\ prev_loss' = <<>>
    /\ scores' = <<>>
    /\ i' = 0
    /\ losses' = <<>>
    /\ writes' = <<>>
    /\ UNCHANGED <<args, m_samples, etv, n, total, drawn, loss_discluded,
                   loss_included, tracker, ind, score_list, result, computed,
                   obs, draws, early>>

\* return tracker.scores
ReturnScores ==
    /\ \/ pc = "break"
       \/ pc = "loop" /\ drawn = n_samples
    /\ result' = TrackerScores(tracker)
    /\ pc' = "done"
    /\ UNCHANGED <<args, m_samples, etv, n, total, drawn, batchv, tracker,
                   ratio, ind, score_list, computed, histv>>

\* -------------------------------------------------------- iterated_sampling
\* utils.sample_subset_feature(input_size, n, ind): one mask row per example,
\* 0 at ind and any subset of the other features set to 1
sample_subset_feature(size, f) ==
    [1..size -> {row \in [Features -> {0, 1}] : row[f] = 0}]

\* one tracker created before the loop over the features
SharedTracker(previous) ==
    IF previous = NoTracker THEN ImportanceTracker({0}) ELSE previous

\* tracker = utils.ImportanceTracker() at the top of: for ind in range(input_size)
FeatureTracker(previous) == ImportanceTracker({0})

NextFeature ==
    /\ pc = "feature"
    /\ ind < InputSize
    /\ tracker' = FeatureTracker(tracker)
    /\ drawn' = 0
    /\ checks' = 0
    /\ first_below' = "none"
    /\ pc' = "iloop"
    /\ UNCHANGED <<args, m_samples, etv, n, total, batchv, ratio, ind,
                   score_list, result, computed, losses, writes, obs, draws,
                   early>>

\* for x, y in loader: up to loss_discluded
IterExcluded ==
    /\ pc = "iloop"
    /\ drawn < n_samples
    /\ LET size == NextBatchSize(drawn)
       IN /\ n' = size
          /\ drawn' = drawn + size
          /\ draws' = [draws EXCEPT ![ind] = draws[ind] + size]
          /\ \E mask \in sample_subset_feature(size, ind) :
                S' = Repeat(mask, m_samples)
          /\ \E loss \in [1..AveragedRows(size * m_samples, m_samples) -> LossValues] :
                loss_discluded' = loss
    /\ computed' = TRUE
    /\ pc' = "included"
    /\ UNCHANGED <<args, m_samples, etv, total, permutations, prev_loss,
                   loss_included, scores, i, tracker, ratio, ind, score_list,
                   result, losses, writes, checks, first_below, obs, early>>

\* S[:, ind] = 1.0 up to loss_included
IterIncluded ==
    /\ pc = "included"
    /\ S' = [r \in 1..Len(S) |-> [S[r] EXCEPT ![ind] = 1]]
    /\ \E loss \in [1..AveragedRows(Len(S), m_samples) -> LossValues] :
          loss_included' = loss
    /\ pc' = "iupdate"
    /\ UNCHANGED <<args, m_samples, etv, n, total, drawn, permutations,
                   prev_loss, loss_discluded, scores, i, tracker, ratio, ind,
                   score_list, result, computed, histv>>

\* tracker.update(loss_discluded - loss_included) and the convergence test;
\* the locals of the minibatch are dead from here on and are dropped
IterUpdate ==
    /\ pc = "iupdate"
    /\ LET delta == [e \in 1..n |-> [f \in {0} |-> loss_discluded[e] - loss_included[e]]]
           updated == TrackerUpdate(tracker, delta)
           vn == VarNumerator(updated, 0)
           below == RatioBelow(vn, updated.N, total, convergence_threshold)
       IN /\ tracker' = updated
          /\ obs' = [obs EXCEPT ![ind] =
                        [N |-> @.N + n, sum |-> @.sum + ColumnSum(delta, 0, FALSE)]]
          /\ IF detect_convergence
             THEN /\ ratio' = RatioClass(vn, total)
                  /\ checks' = checks + 1
                  /\ first_below' = IF checks = 0
                                    THEN (IF below THEN "yes" ELSE "no")
                                    ELSE first_below
             ELSE UNCHANGED <<ratio, checks, first_below>>
          /\ IF ShouldBreak(detect_convergence, below)
             THEN /\ pc' = "ibreak"
                  /\ early' = [early EXCEPT ![ind] = TRUE]
             ELSE /\ pc' = "iloop"
                  /\ UNCHANGED early
    /\ S' = <<>>
    /\ loss_discluded' = <<>>
    /\ loss_included' = <<>>
    /\ UNCHANGED <<args, m_samples, etv, n, total, drawn, permutations,
                   prev_loss, scores, i, ind, score_list, result, computed,
                   losses, writes, draws>>

\* scores.append(tracker.scores), and on to the next ind
SaveFeature ==
    /\ \/ pc = "ibreak"
       \/ pc = "iloop" /\ drawn = n_samples
    /\ score_list' = Append(score_list, TrackerScores(tracker)[0])
    /\ ind' = ind + 1
    /\ pc' = "feature"
    /\ UNCHANGED <<args, m_samples, etv, n, total, drawn, batchv, tracker,
                   ratio, result, computed, histv>>

\* return np.stack(scores)
ReturnStack ==
    /\ pc = "feature"
    /\ ind = InputSize
    /\ result' = score_list
    /\ pc' = "done"
    /\ UNCHANGED <<args, m_samples, etv, n, total, drawn, batchv, tracker,
                   ratio, ind, score_list, computed, histv>>

\* ------------------------------------------------------------ specifications
\* the state of the sampling loops before either has started
Idle ==
    /\ drawn = 0
    /\ S = <<>>
    /\ permutations = <<>>
    /\ prev_loss = <<>>
    /\ loss_discluded = <<>>
    /\ loss_included = <<>>
    /\ scores = <<>>
    /\ i = 0
    /\ tracker = NoTracker
    /\ ratio = "none"
    /\ ind = 0
    /\ score_list = <<>>
    /\ result = <<>>
    /\ computed = FALSE
    /\ losses = <<>>
    /\ writes = <<>>
    /\ checks = 0
    /\ first_below = "none"
    /\ obs = [f \in Features |-> [N |-> 0, sum |-> 0]]
    /\ draws = [f \in Features |-> 0]
    /\ early = [f \in Features |-> FALSE]

\* estimate_total before its first batch
EnterTotal ==
    /\ b = 0
    /\ N = 0
    /\ n = 0
    /\ mean_loss = Whole(0)
    /\ marginal_pred = Whole(0)
    /\ marginal_loss = Whole(0)
    /\ total = NotComputed

InitTotal ==
    /\ fn = "estimate_total"
    /\ pc = "pass1"
    /\ imputation_module = "marginal"
    /\ m_arg = 1
    /\ m_samples = 1
    /\ batch_size \in 1..(MaxData + 1)
    /\ n_samples = 1
    /\ detect_convergence = FALSE
    /\ convergence_threshold = <<1, 100>>
    /\ dataset \in SeqsUpTo(Rows, MaxData)
    /\ EnterTotal
    /\ Idle

NextTotal == Pass1Batch \/ Pass1End \/ Pass2Batch \/ ReturnTotal

SpecTotal == InitTotal /\ [][NextTotal]_vars

\* datasets on which the model beats, equals and loses to its mean prediction
SamplingDatasets ==
    { <<[pred |-> 0, y |-> 0], [pred |-> 1, y |-> 1]>>,
      <<[pred |-> 0, y |-> 0]>>,
      <<[pred |-> 1, y |-> 0], [pred |-> 0, y |-> 1]>> }

\* detect_convergence with convergence_threshold: off, the default 0.01, and
\* a generous 1.25
Controls == {<<FALSE, <<1, 100>>>>, <<TRUE, <<1, 100>>>>, <<TRUE, <<5, 4>>>>}

Init ==
    /\ fn \in {"permutation_sampling", "iterated_sampling"}
    /\ pc = "start"
    /\ imputation_module \in {"marginal", "reference", "invalid"}
    /\ m_arg \in 1..MaxM
    /\ m_samples = m_arg
    /\ batch_size \in 1..MaxBatch
    /\ n_samples \in 1..MaxSamples
    /\ \E c \in Controls :
          /\ detect_convergence = c[1]
          /\ convergence_threshold = c[2]
    /\ dataset \in SamplingDatasets
    /\ EnterTotal
    /\ Idle

Next ==
    \/ VerifyImputation
    \/ Pass1Batch \/ Pass1End \/ Pass2Batch \/ ReturnTotal
    \/ Setup
    \/ BeginBatch \/ RevealStep \/ UpdateTracker \/ CheckConvergence
    \/ ReturnScores
    \/ NextFeature \/ IterExcluded \/ IterIncluded \/ IterUpdate
    \/ SaveFeature \/ ReturnStack

Spec == Init /\ [][Next]_vars

\* ================================================================= claims

\* ---- estimate_total against the dataset as a whole
DatasetPred == [k \in 1..Len(dataset) |-> Whole(dataset[k].pred)]

DatasetMeanPred == Mean(DatasetPred)

DatasetMeanLoss ==
    Mean([k \in 1..Len(dataset) |-> loss_fn(DatasetPred[k], Whole(dataset[k].y))])

DatasetMarginalLoss ==
    Mean([k \in 1..Len(dataset) |-> loss_fn(DatasetMeanPred, Whole(dataset[k].y))])

PassDone == b = NumBatches(Len(dataset), batch_size)

\* C6: on a dataset that is not empty, after pass 1 mean_loss is the mean
\* loss of the model over the whole dataset and marginal_pred its mean
\* prediction, after pass 2 marginal_loss is the mean loss of that constant
\* prediction, and estimate_total returns their difference: for every batch
\* size, also when the last batch is smaller than the others.
C6_TotalIsDatasetWide ==
    (fn = "estimate_total" /\ dataset # <<>>) =>
        /\ (pc = "pass1" /\ PassDone) =>
              (mean_loss = DatasetMeanLoss /\ marginal_pred = DatasetMeanPred)
        /\ pc \in {"pass2", "done"} =>
              (mean_loss = DatasetMeanLoss /\ marginal_pred = DatasetMeanPred)
        /\ ((pc = "pass2" /\ PassDone) \/ pc = "done") =>
              marginal_loss = DatasetMarginalLoss
        /\ pc = "done" => total = RSub(DatasetMarginalLoss, DatasetMeanLoss)

C6_UnevenBatchesReturned ==
    /\ fn = "estimate_total"
    /\ pc = "done"
    /\ Len(dataset) = 3
    /\ batch_size = 2
    /\ total[1] # 0
    /\ marginal_pred[2] = 3

Permutation == fn = "permutation_sampling"

Iterated == fn = "iterated_sampling"

\* the test of the convergence check on the tracker as it stands
TrackerBelow ==
    RatioBelow(MaxVarNumerator(tracker), tracker.N, total, convergence_threshold)

\* the batches the loader has handed over so far
BatchesDrawn == NumBatches(drawn, batch_size)

\* C1: permutation_sampling tests convergence once per batch and never inside
\* one: the test runs only when all d reveal steps of the batch are done and
\* its scores are in the tracker; with detect_convergence the loop leaves at
\* the first batch whose ratio is below the threshold and goes on after every
\* other batch; without it the whole budget of n_samples is processed.
C1_CheckedPerBatch ==
    Permutation =>
        /\ pc = "check" => (i = InputSize /\ tracker.N = drawn)
        /\ pc = "reveal" =>
              /\ tracker.N = drawn - n
              /\ checks = IF detect_convergence THEN BatchesDrawn - 1 ELSE 0
        /\ pc \in {"loop", "break", "done"} =>
              /\ tracker.N = drawn
              /\ checks = IF detect_convergence THEN BatchesDrawn ELSE 0
        /\ pc = "break" => (detect_convergence /\ TrackerBelow)
        /\ (pc = "loop" /\ detect_convergence /\ drawn > 0) => ~TrackerBelow
        /\ pc = "done" =>
              \/ drawn = n_samples
              \/ detect_convergence /\ TrackerBelow
        /\ (pc = "done" /\ ~detect_convergence) => drawn = n_samples

C1_StoppedAtSecondBatch ==
    /\ Permutation
    /\ pc = "break"
    /\ checks = 2
    /\ first_below = "no"

\* C2: iterated_sampling takes the features in index order, each with a
\* tracker of its own: the rows saved so far are those of features 0..ind-1,
\* row f is the mean of the scores observed for feature f alone, every
\* finished feature drew its full n_samples unless its own test stopped it,
\* and the result has d rows.
C2_FeaturesIndependent ==
    Iterated =>
        /\ pc \notin {"start", "failed", "pass1", "pass2", "setup"} =>
              /\ Len(score_list) = ind
              /\ \A f \in Features :
                    /\ f < ind =>
                          /\ score_list[f + 1] = Rat(obs[f].sum, obs[f].N)
                          /\ obs[f].N = draws[f]
                          /\ draws[f] >= Min(batch_size, n_samples)
                          /\ draws[f] = n_samples \/ (early[f] /\ detect_convergence)
                    /\ f > ind => (draws[f] = 0 /\ obs[f].N = 0 /\ ~early[f])
        /\ pc \in {"iloop", "ibreak"} =>
              /\ tracker.N = obs[ind].N
              /\ tracker.sum[0] = obs[ind].sum
              /\ drawn = draws[ind]
        /\ pc = "done" => (ind = InputSize /\ Len(result) = InputSize)

C2_EarlyStopThenFullBudget ==
    /\ Iterated
    /\ pc = "done"
    /\ early[0]
    /\ draws[0] < n_samples
    /\ ~early[1]
    /\ draws[1] = n_samples
    /\ result[1] # result[2]

\* C3: with a reference imputation module the call does not fail and every
\* replication and every reshape of the call uses 1 replicate, whatever
\* m_samples the caller passed; with a marginal module they use the caller's
\* m_samples.
C3_ReplicateCount ==
    LET replicates == IF imputation_module = "reference" THEN 1 ELSE m_arg
    IN imputation_module \in {"marginal", "reference"} =>
          /\ pc # "failed"
          /\ pc # "start" => m_samples = replicates
          /\ S # <<>> => Len(S) = n * replicates
          /\ permutations # <<>> => Len(permutations) = n * replicates
          /\ prev_loss # <<>> => Len(prev_loss) = n
          /\ loss_discluded # <<>> => Len(loss_discluded) = n
          /\ loss_included # <<>> => Len(loss_included) = n

C3_ReferenceClamped ==
    /\ imputation_module = "reference"
    /\ m_arg = 2
    /\ pc = "reveal"
    /\ i = 1
    /\ n = 2
    /\ Len(S) = 2

\* C4: a module that is no ImputationModule makes the call fail before
\* anything is computed: estimate_total has not started, no batch is drawn,
\* no prediction or imputation is made, no tracker exists.
C4_InvalidFailsFirst ==
    imputation_module = "invalid" =>
        /\ pc \in {"start", "failed"}
        /\ total = NotComputed
        /\ b = 0 /\ N = 0
        /\ drawn = 0
        /\ ~computed
        /\ tracker = NoTracker
        /\ S = <<>>
        /\ result = <<>>

C4_InvalidFailed ==
    /\ imputation_module = "invalid"
    /\ pc = "failed"

\* C5: with detect_convergence and a baseline total of zero the convergence
\* check is guarded: the ill-defined ratio conf / total (inf, or nan when
\* conf is 0 too) is never what is compared with the threshold.
C5_ZeroTotalGuarded ==
    ~(/\ detect_convergence
      /\ total = Whole(0)
      /\ ratio \in {"nan", "inf"})

\* C8 as claimed: when the first test of a loop already finds the ratio below
\* the threshold, the loop ends with strictly fewer than n_samples draws, for
\* every n_samples >= 1 and batch_size >= 1.
C8_StrictlyFewerDraws ==
    (first_below = "yes" /\ pc \in {"break", "ibreak"}) => drawn < n_samples

\* C8 as amended: such a loop ends after its first batch, with
\* min(batch_size, n_samples) draws; that is strictly fewer than n_samples
\* when batch_size < n_samples, and all n_samples draws otherwise.
C8_StopsAfterFirstBatch ==
    first_below = "yes" =>
        /\ detect_convergence
        /\ pc \in {"break", "ibreak", "feature", "done"}
        /\ checks = 1
        /\ drawn = Min(batch_size, n_samples)
        /\ batch_size < n_samples => drawn < n_samples
        /\ batch_size >= n_samples => drawn = n_samples

C8_LeftWithBudgetToSpare ==
    /\ first_below = "yes"
    /\ pc = "break"
    /\ drawn < n_samples

\* ---- inside one batch of permutation_sampling
InBatch == Permutation /\ pc \in {"reveal", "check"}

\* the example a row of the replicated batch belongs to
ExampleOf(r) == ((r - 1) % n) + 1

\* the features at the first `pos` places of a permutation
Revealed(perm, pos) == {perm[k] : k \in 1..pos}

RowSum(row) == ColumnSum([f \in 1..InputSize |-> [g \in {0} |-> row[f - 1]]], 0, FALSE)

\* the mask, the write counts and the scores after i reveal steps
MaskState ==
    InBatch =>
        /\ Len(S) = n * m_samples
        /\ Len(permutations) = n * m_samples
        /\ \A r \in 1..Len(permutations) :
              /\ permutations[r] \in randperm
              /\ permutations[r] = permutations[ExampleOf(r)]
        /\ \A r \in 1..Len(S) : \A f \in Features :
              S[r][f] = IF f \in Revealed(permutations[ExampleOf(r)], i) THEN 1 ELSE 0
        /\ \A e \in 1..n : \A f \in Features :
              writes[e][f] = IF f \in Revealed(permutations[e], i) THEN 1 ELSE 0
        /\ \A e \in 1..n : \A k \in 1..i :
              scores[e][permutations[e][k]] = losses[k][e] - losses[k + 1][e]
        /\ i = 0 => \A r \in 1..Len(S) : \A f \in Features : S[r][f] = 0
        /\ i = InputSize =>
              /\ \A r \in 1..Len(S) : \A f \in Features : S[r][f] = 1
              /\ \A e \in 1..n : \A f \in Features : writes[e][f] = 1

\* a step inside a batch keeps the permutations and every 1 of the mask
MaskStep ==
    (InBatch /\ InBatch') =>
        /\ permutations' = permutations
        /\ Len(S') = Len(S)
        /\ \A r \in 1..Len(S) : \A f \in Features : S[r][f] = 1 => S'[r][f] = 1

\* C9: in a batch the mask starts at zero and after i reveal steps the row of
\* every example, and of each of its replicates, is 1 exactly at the first i
\* features of that example's permutation, which is a bijection fixed for the
\* batch; no entry goes back to 0; after d steps the mask is all ones and
\* every score entry has been written exactly once, the entry of the feature
\* revealed at a step holding that step's previous loss minus its loss.
C9_MaskFollowsPermutation == []MaskState /\ [][MaskStep]_vars

C9_ReplicatedBatchRevealed ==
    /\ InBatch
    /\ i = InputSize
    /\ n = 2
    /\ m_samples = 2
    /\ permutations[1] # permutations[2]
    /\ scores[1] # scores[2]

\* C10: the scores of an example telescope: whatever its permutation, their
\* sum over the features is the loss with every feature held out minus the
\* loss of the last reveal step so far, and after d steps that is the loss
\* with every feature revealed.
C10_ScoresTelescope ==
    InBatch =>
        /\ Len(losses) = i + 1
        /\ \A e \in 1..n :
              RowSum(scores[e]) = losses[1][e] - losses[i + 1][e]

C10_NonZeroSum ==
    /\ InBatch
    /\ i = InputSize
    /\ n = 2
    /\ scores[1][0] = -1
    /\ scores[1][1] = 1
    /\ RowSum(scores[2]) = -1
    /\ permutations[1] # permutations[2]

====
